---- MODULE Spec2Model ----
(***************************************************************************)
(* A model of The Quantum Canvas (src/src/quantum_canvas.py, utils.py).    *)
(*                                                                         *)
(* A QuantumCanvas session turns names into seeds, seeds into rotation     *)
(* angles, angles into a bound EfficientSU2 circuit, and circuits into     *)
(* measurement counts delivered by a local simulator or a remote sampler.  *)
(* Every public call is one action; the execution backend is the           *)
(* environment, whose answers are the action's inputs.                     *)
(***************************************************************************)
EXTENDS Integers, Sequences, FiniteSets, TLC

(***************************************************************************)
(* Bounds of the model.                                                    *)
(***************************************************************************)
MaxLen == 3
MaxBatch == 2
MaxQubits == 2
MaxLayers == 1
MaxShots == 2
AngleSteps == 8

None == "None"

(***************************************************************************)
(* Strings are sequences of one-character strings.                         *)
(***************************************************************************)
Alphabet == {" ", "a", "A"}

AllNames == UNION {[1..k -> Alphabet] : k \in 0..MaxLen}

isspace(c) == c \in {" ", "\t", "\n", "\r"}

RECURSIVE lstrip(_)
lstrip(s) ==
  IF s # <<>> /\ isspace(Head(s)) THEN lstrip(Tail(s)) ELSE s

RECURSIVE rstrip(_)
rstrip(s) ==
  IF s # <<>> /\ isspace(s[Len(s)]) THEN rstrip(SubSeq(s, 1, Len(s) - 1)) ELSE s

strip(s) == rstrip(lstrip(s))

lower_char(c) ==
  CASE c = "A" -> "a"
    [] c = "B" -> "b"
    [] OTHER -> c

lower_identity(s) == s

lower(s) == [i \in 1..Len(s) |-> lower_char(s[i])]

ord(c) ==
  CASE c = " " -> 32
    [] c = "\t" -> 9
    [] c = "A" -> 65
    [] c = "B" -> 66
    [] c = "a" -> 97
    [] c = "b" -> 98
    [] OTHER -> 63

encode_utf8(s) == [i \in 1..Len(s) |-> ord(s[i])]

(***************************************************************************)
(* hashlib.sha256(...).digest(): a 32-byte digest that is a function of    *)
(* the bytes alone.  The compression function is replaced by a byte-wise   *)
(* mixing step; only "equal input, equal digest" is relied on.             *)
(***************************************************************************)
DigestLen == 32

sha256_init == [i \in 1..DigestLen |-> (i * 37 + 11) % 256]

sha256_update(h, x) ==
  [i \in 1..DigestLen |->
     (h[i] * 31 + x * (i + 1) + h[(i % DigestLen) + 1] + 7) % 256]

RECURSIVE sha256_absorb(_, _)
sha256_absorb(h, bytes) ==
  IF bytes = <<>> THEN h
  ELSE sha256_absorb(sha256_update(h, Head(bytes)), Tail(bytes))

sha256_digest(bytes) == sha256_absorb(sha256_init, bytes)

(***************************************************************************)
(* int.from_bytes(b, byteorder='big') of four bytes: an unsigned 32-bit    *)
(* value.  TLC's integers are signed 32-bit, so the value is kept as its   *)
(* two 16-bit halves <<high, low>>, most significant first.                *)
(***************************************************************************)
int_from_bytes_big(b) == <<b[1] * 256 + b[2], b[3] * 256 + b[4]>>

(***************************************************************************)
(* Errors are records; NoErr is "no exception".                            *)
(***************************************************************************)
Err(kind, expected, actual) ==
  [kind |-> kind, expected |-> expected, actual |-> actual]

NoErr == Err("none", 0, 0)
NameEmptyError == Err("ValueError: Name cannot be empty", 0, 0)
NamesEmptyError == Err("ValueError: Names list cannot be empty", 0, 0)
ParameterCountError(expected, actual) ==
  Err("ValueError: Expected parameters, got", expected, actual)
IndexError == Err("IndexError", 0, 0)
AttributeError == Err("AttributeError", 0, 0)
RemoteServiceError == Err("RemoteServiceError", 0, 0)

(***************************************************************************)
(* utils.hash_name_to_seed                                                 *)
(***************************************************************************)
name_is_empty_no_strip(name) == name = <<>>

name_is_empty(name) == name = <<>> \/ strip(name) = <<>>

normalize(name) == lower(strip(name))

hash_name_to_seed(name) ==
  IF name_is_empty(name)
  THEN [err |-> NameEmptyError, seed |-> <<0, 0>>]
  ELSE LET normalized == normalize(name)
           hash_bytes == sha256_digest(encode_utf8(normalized))
       IN [err |-> NoErr,
           seed |-> int_from_bytes_big(SubSeq(hash_bytes, 1, 4))]

(***************************************************************************)
(* utils.seed_to_parameters: num_params angles drawn from a generator      *)
(* seeded with the seed.  Angles are points of a grid over [0, 2*pi); the  *)
(* generator is a linear congruential one.                                 *)
(***************************************************************************)
rng_next(x) == (x * 75 + 74) % 65537

RECURSIVE rng_uniform(_, _)
rng_uniform(x, k) ==
  IF k = 0 THEN <<>>
  ELSE <<rng_next(x) % AngleSteps>> \o rng_uniform(rng_next(x), k - 1)

seed_to_parameters(seed, num_params) ==
  rng_uniform((seed[1] + seed[2]) % 65537, num_params)

(***************************************************************************)
(* QuantumConfig (frozen dataclass) and its derived properties.            *)
(***************************************************************************)
Configs ==
  [num_qubits : 1..MaxQubits, layers : 0..MaxLayers, shots : 1..MaxShots]

num_parameters_missing_final_layer(cfg) == cfg.layers * cfg.num_qubits * 2

num_parameters(cfg) == (cfg.layers + 1) * cfg.num_qubits * 2

(***************************************************************************)
(* EfficientSU2(num_qubits, su2_gates=['ry','rz'], entanglement='full',    *)
(* reps=layers): reps blocks of (ry layer, rz layer, full pairwise cx),    *)
(* then a final ry layer and rz layer.  A gate names the index of the      *)
(* parameter it takes (0: none).                                           *)
(***************************************************************************)
Gate(g, q, t, p) == [gate |-> g, qubit |-> q, target |-> t, param |-> p]

rotation_layer(n, axis, base) ==
  [q \in 1..n |-> Gate(axis, q, 0, base + q)]

rotation_block(n, r) ==
  rotation_layer(n, "ry", r * 2 * n) \o rotation_layer(n, "rz", r * 2 * n + n)

RECURSIVE full_entanglement(_, _, _)
full_entanglement(i, j, n) ==
  IF i >= n THEN <<>>
  ELSE IF j > n THEN full_entanglement(i + 1, i + 2, n)
  ELSE <<Gate("cx", i, j, 0)>> \o full_entanglement(i, j + 1, n)

RECURSIVE su2_blocks(_, _, _)
su2_blocks(r, reps, n) ==
  IF r = reps THEN rotation_block(n, r)
  ELSE rotation_block(n, r) \o full_entanglement(1, 2, n)
         \o su2_blocks(r + 1, reps, n)

_build_ansatz(cfg) ==
  [num_qubits |-> cfg.num_qubits,
   gates |-> su2_blocks(0, cfg.layers, cfg.num_qubits)]

ansatz_num_parameters(ansatz) ==
  Cardinality({ansatz.gates[i].param : i \in 1..Len(ansatz.gates)} \ {0})

assign_parameters(ansatz, parameters) ==
  [i \in 1..Len(ansatz.gates) |->
     LET g == ansatz.gates[i]
     IN [gate |-> g.gate, qubit |-> g.qubit, target |-> g.target,
         angle |-> IF g.param = 0 THEN -1 ELSE parameters[g.param]]]

(***************************************************************************)
(* QuantumCanvas._build_circuit: an error, or the bound and measured       *)
(* circuit.                                                                *)
(***************************************************************************)
NoCircuit == [num_qubits |-> 0, gates |-> <<>>, measured |-> FALSE,
              transpiled |-> FALSE]

_build_circuit(parameters, cfg) ==
  LET ansatz == _build_ansatz(cfg)
  IN IF Len(parameters) # ansatz_num_parameters(ansatz)
     THEN [err |-> ParameterCountError(ansatz_num_parameters(ansatz),
                                       Len(parameters)),
           circuit |-> NoCircuit]
     ELSE [err |-> NoErr,
           circuit |-> [num_qubits |-> ansatz.num_qubits,
                        gates |-> assign_parameters(ansatz, parameters),
                        measured |-> TRUE,
                        transpiled |-> FALSE]]

(***************************************************************************)
(* qiskit.transpile: a rewriting that keeps the circuit's meaning.         *)
(***************************************************************************)
transpile(circuits) ==
  [i \in 1..Len(circuits) |-> [circuits[i] EXCEPT !.transpiled = TRUE]]

(***************************************************************************)
(* Counts: a mapping from bit patterns (tuples of 0/1) to occurrences.     *)
(* What a backend can deliver for one circuit: all shots (on one pattern,  *)
(* or spread over two), one shot short (a truncated remote run), or no     *)
(* counts entry at all (a malformed remote result).                        *)
(***************************************************************************)
Zeros(n) == [i \in 1..n |-> 0]
Ones(n) == [i \in 1..n |-> 1]
EmptyCounts == [p \in {} |-> 0]

RECURSIVE sum_values(_)
sum_values(counts) ==
  IF DOMAIN counts = {} THEN 0
  ELSE LET p == CHOOSE q \in DOMAIN counts : TRUE
       IN counts[p] + sum_values([q \in DOMAIN counts \ {p} |-> counts[q]])

FullCounts(cfg) ==
  {(Zeros(cfg.num_qubits) :> cfg.shots)}
  \cup (IF cfg.shots >= 2
        THEN {(Zeros(cfg.num_qubits) :> (cfg.shots - 1))
                @@ (Ones(cfg.num_qubits) :> 1)}
        ELSE {})

TruncatedCounts(cfg) ==
  IF cfg.shots >= 2
  THEN {(Zeros(cfg.num_qubits) :> (cfg.shots - 1))}
  ELSE {EmptyCounts}

Entry(present, counts) == [present |-> present, counts |-> counts]
AbsentEntry == Entry(FALSE, EmptyCounts)

LocalEntries(cfg) == {Entry(TRUE, c) : c \in FullCounts(cfg)}

CloudEntries(cfg) ==
  {Entry(TRUE, c) : c \in FullCounts(cfg) \cup TruncatedCounts(cfg)}
  \cup {AbsentEntry}

Reply(fail, entries) == [fail |-> fail, entries |-> entries]
NoReply == Reply(FALSE, <<>>)

\* The local simulator answers each run with one full Counts.
LocalReplies(n, cfg) == {Reply(FALSE, e) : e \in [1..n -> LocalEntries(cfg)]}

\* The remote job fails, or answers with fewer entries than the circuits
\* submitted, as many, or one more.
CloudReplies(n, cfg) ==
  {Reply(TRUE, <<>>)}
  \cup {Reply(FALSE, e) :
          e \in UNION {[1..k -> CloudEntries(cfg)] : k \in 0..(n + 1)}}

CloudBackends == {"ibm_a", "ibm_b"}
LocalBackend == "aer_simulator"

(***************************************************************************)
(* State.                                                                  *)
(*   config, use_cloud, _service, _backend : the QuantumCanvas session     *)
(*   inits       : completed runs of _initialize_backend (history)         *)
(*   op, args    : the call whose outcome the caller holds ("idle": none)  *)
(*   outcome     : NoErr when the call returned, else the error raised     *)
(*   results     : the ArtResult objects the call returned                 *)
(*   heap        : the Counts dict objects; an ArtResult holds a reference *)
(*   held        : the dicts handed out to the caller, by reference        *)
(*   reply       : what the backend answered (history)                     *)
(*   log         : what the call did, in order (history)                   *)
(*   names_in, seeds_out : two names and what hash_name_to_seed returned   *)
(*                         for each (used by SpecSeed only)                *)
(***************************************************************************)
VARIABLES config, use_cloud, _service, _backend, inits,
          op, args, outcome, results, heap, held, reply, log,
          names_in, seeds_out

sessionVars == <<config, use_cloud, _service, _backend, inits>>
callVars == <<op, args, outcome, results, heap, held, reply, log>>
seedVars == <<names_in, seeds_out>>
vars == <<sessionVars, callVars, seedVars>>

(***************************************************************************)
(* A call runs on a frame: the session's fields, the call's locals, the    *)
(* exception in flight (err) and the log.  A step of a raised frame does   *)
(* nothing.                                                                *)
(***************************************************************************)
Frame ==
  [config |-> config, use_cloud |-> use_cloud, service |-> _service,
   backend |-> _backend, inits |-> inits, err |-> NoErr, log |-> <<>>,
   circuits |-> <<>>, metadata |-> <<>>, heap |-> <<>>, all_counts |-> <<>>,
   results |-> <<>>]

Ok(m) == m.err = NoErr
Raise(m, e) == [m EXCEPT !.err = e]
Emit(m, kind, n) == [m EXCEPT !.log = Append(@, <<kind, n>>)]

\* QuantumCanvas._initialize_backend, and the assignment of its result;
\* sel is what the remote service does: fail to connect, fail to select, or
\* select a backend.
_initialize_backend(m, sel) ==
  IF m.use_cloud
  THEN IF sel = "connect_fail" THEN Raise(m, RemoteServiceError)
       ELSE IF sel = "select_fail"
            THEN Raise([m EXCEPT !.service = TRUE], RemoteServiceError)
            ELSE Emit([m EXCEPT !.service = TRUE, !.backend = sel,
                                !.inits = @ + 1], "init", 0)
  ELSE Emit([m EXCEPT !.backend = LocalBackend, !.inits = @ + 1], "init", 0)

backend_is_unset_always(b) == TRUE

backend_is_unset(b) == b = None

\* The property QuantumCanvas.backend.
backend(m, sel) ==
  IF ~Ok(m) THEN m
  ELSE IF backend_is_unset(m.backend)
       THEN _initialize_backend(Emit(m, "access", 0), sel)
       ELSE Emit(m, "access", 0)

\* generate_art_batch, the loop body of lines 228-235 for names[i].
prepare_name(m, names, i) ==
  LET h == hash_name_to_seed(names[i])
  IN IF h.err # NoErr THEN Raise(m, h.err)
     ELSE LET n == num_parameters(m.config)
              b == _build_circuit(seed_to_parameters(h.seed, n), m.config)
              m1 == Emit(Emit(m, "seed", i), "params", n)
          IN IF b.err # NoErr THEN Raise(m1, b.err)
             ELSE [Emit(m1, "build", i) EXCEPT
                     !.circuits = Append(@, b.circuit),
                     !.metadata = Append(@, [name |-> names[i],
                                             seed |-> h.seed])]

RECURSIVE prepare_loop(_, _, _)
prepare_loop(m, names, i) ==
  IF i > Len(names) \/ ~Ok(m) THEN m
  ELSE prepare_loop(prepare_name(m, names, i), names, i + 1)

\* _execute_local: one backend.run per circuit.
RECURSIVE _execute_local(_, _, _, _, _)
_execute_local(m, circuits, sel, rep, i) ==
  IF i > Len(circuits) \/ ~Ok(m) THEN m
  ELSE LET m1 == backend(m, sel)
       IN IF ~Ok(m1) THEN m1
          ELSE _execute_local(
                 [Emit(m1, "job", 1) EXCEPT
                    !.heap = Append(@, rep.entries[i].counts),
                    !.all_counts = Append(@, Len(m1.heap) + 1)],
                 circuits, sel, rep, i + 1)

\* result[i] of the remote job's result.
cloud_entry(rep, i) == rep.entries[i]

\* _execute_cloud, the loop of lines 290-292.
RECURSIVE cloud_counts_loop(_, _, _, _)
cloud_counts_loop(m, n, rep, i) ==
  IF i > n \/ ~Ok(m) THEN m
  ELSE IF i > Len(rep.entries) THEN Raise(m, IndexError)
  ELSE IF ~cloud_entry(rep, i).present THEN Raise(m, AttributeError)
  ELSE cloud_counts_loop(
         [m EXCEPT !.heap = Append(@, cloud_entry(rep, i).counts),
                   !.all_counts = Append(@, Len(m.heap) + 1)],
         n, rep, i + 1)

\* _execute_cloud: one sampler job for all the circuits.
_execute_cloud(m, circuits, sel, rep) ==
  LET m1 == backend(m, sel)
  IN IF ~Ok(m1) THEN m1
     ELSE LET m2 == Emit(m1, "job", Len(circuits))
          IN IF rep.fail THEN Raise(m2, RemoteServiceError)
             ELSE cloud_counts_loop(m2, Len(circuits), rep, 1)

\* _execute_circuits_batch and _execute_circuit: both hand the list to the
\* variant the session uses.
_execute_circuits_batch(m, circuits, sel, rep) ==
  IF ~Ok(m) THEN m
  ELSE IF m.use_cloud
       THEN _execute_cloud(Emit(m, "execute", Len(circuits)), circuits, sel, rep)
       ELSE _execute_local(Emit(m, "execute", Len(circuits)), circuits, sel,
                           rep, 1)

art_result_first_metadata(metadata, i, counts, cfg, backend_name) ==
  [name |-> metadata[i].name, seed |-> metadata[1].seed, counts |-> counts,
   config |-> cfg, backend_name |-> backend_name]

\* ArtResult(name=metadata[i]["name"], seed=metadata[i]["seed"], ...).
art_result(metadata, i, counts, cfg, backend_name) ==
  [name |-> metadata[i].name, seed |-> metadata[i].seed, counts |-> counts,
   config |-> cfg, backend_name |-> backend_name]

\* generate_art_batch, the loop of lines 243-253.
RECURSIVE results_loop(_, _, _)
results_loop(m, sel, i) ==
  IF i > Len(m.all_counts) \/ ~Ok(m) THEN m
  ELSE LET m1 == backend(m, sel)
       IN IF ~Ok(m1) THEN m1
          ELSE results_loop(
                 [m1 EXCEPT !.results =
                    Append(@, art_result(m1.metadata, i, m1.all_counts[i],
                                         m1.config, m1.backend))],
                 sel, i + 1)

names_is_empty_never(names) == FALSE

\* "not names"
names_is_empty(names) == names = <<>>

\* generate_art_batch, up to and including the loop that builds the circuits.
prepare_batch(m, names) ==
  IF names_is_empty(names) THEN Raise(m, NamesEmptyError)
  ELSE prepare_loop(m, names, 1)

\* generate_art_batch from the transpilation on (lines 237-256), on the
\* frame m1 the build loop left.
execute_batch(m1, sel, rep) ==
  LET m2 == backend(m1, sel)                             \* transpile(...)
      m3 == backend(m2, sel)                             \* self.backend.name
      m4 == _execute_circuits_batch(m3, transpile(m3.circuits), sel, rep)
  IN results_loop(m4, sel, 1)

\* QuantumCanvas.generate_art_batch.
generate_art_batch(m, names, sel, rep) ==
  execute_batch(prepare_batch(m, names), sel, rep)

\* generate_art from the transpilation on (lines 203-216), on the frame m1
\* that holds the circuit built.
execute_one(m1, sel, rep) ==
  LET m2 == backend(m1, sel)                             \* transpile(...)
      m3 == backend(m2, sel)                             \* self.backend.name
      m4 == _execute_circuits_batch(m3, transpile(m3.circuits), sel, rep)
      m5 == backend(m4, sel)                             \* self.backend.name
  IN IF ~Ok(m5) THEN m5
     ELSE [m5 EXCEPT !.results =
             <<art_result(m5.metadata, 1, m5.all_counts[1], m5.config,
                          m5.backend)>>]

\* QuantumCanvas.generate_art.
generate_art(m, user_name, sel, rep) ==
  execute_one(prepare_name(m, <<user_name>>, 1), sel, rep)

\* QuantumCanvas.export_hardware_map.
export_hardware_map(m, sel) ==
  IF ~m.use_cloud THEN m
  ELSE Emit(backend(m, sel), "savefig", 0)

(***************************************************************************)
(* The inputs of a call.                                                   *)
(***************************************************************************)
Names == {<<>>, <<" ">>, <<"a">>, <<"B", " ">>}

NameLists == UNION {[1..k -> Names] : k \in 0..MaxBatch}

\* What the remote service can do when asked for a backend.
Selections ==
  IF _backend # None THEN {_backend}
  ELSE IF use_cloud THEN {"connect_fail", "select_fail"} \cup CloudBackends
  ELSE {LocalBackend}

\* What the backend can answer to the circuits of frame m (nothing, when the
\* call fails before it executes).
Replies(m) ==
  IF ~Ok(m) THEN {NoReply}
  ELSE IF use_cloud THEN CloudReplies(Len(m.circuits), config)
  ELSE LocalReplies(Len(m.circuits), config)

\* The call returns or raises: the session keeps the frame's fields, the
\* caller gets the outcome.
Commit(o, a, rep, m) ==
  /\ _service' = m.service
  /\ _backend' = m.backend
  /\ inits' = m.inits
  /\ op' = o
  /\ args' = a
  /\ outcome' = m.err
  /\ results' = IF Ok(m) THEN m.results ELSE <<>>
  /\ heap' = m.heap
  /\ held' = {}
  /\ reply' = rep
  /\ log' = m.log
  /\ UNCHANGED <<config, use_cloud, seedVars>>

SessionInit ==
  /\ config \in Configs
  /\ use_cloud \in BOOLEAN
  /\ _service = FALSE
  /\ _backend = None
  /\ inits = 0
  /\ op = "idle"
  /\ args = <<>>
  /\ outcome = NoErr
  /\ results = <<>>
  /\ heap = <<>>
  /\ held = {}
  /\ reply = NoReply
  /\ log = <<>>

NotCalled == [err |-> Err("not called", 0, 0), seed |-> <<0, 0>>]

Init ==
  /\ SessionInit
  /\ names_in = <<<<>>, <<>>>>
  /\ seeds_out = <<NotCalled, NotCalled>>

GenerateArt ==
  /\ op = "idle"
  /\ \E user_name \in Names :
       \E m1 \in {prepare_name(Frame, <<user_name>>, 1)} :
          \E sel \in Selections, rep \in Replies(m1) :
             Commit("generate_art", <<user_name>>, rep,
                    execute_one(m1, sel, rep))

GenerateArtBatch ==
  /\ op = "idle"
  /\ \E names \in NameLists :
       \E m1 \in {prepare_batch(Frame, names)} :
          \E sel \in Selections, rep \in Replies(m1) :
             Commit("generate_art_batch", names, rep,
                    execute_batch(m1, sel, rep))

ExportHardwareMap ==
  /\ op = "idle"
  /\ \E sel \in Selections :
       Commit("export_hardware_map", <<>>, NoReply,
              export_hardware_map(Frame, sel))

\* A direct call of _build_circuit with a vector of any length.
BuildCircuit ==
  /\ op = "idle"
  /\ \E name \in {<<"a">>, <<"B", " ">>}, k \in 0..(num_parameters(config) + 1) :
       LET b == _build_circuit(
                  seed_to_parameters(hash_name_to_seed(name).seed, k), config)
           m == Emit(Frame, "params", k)
       IN Commit("_build_circuit", <<name>>, NoReply,
                 IF b.err # NoErr THEN Raise(m, b.err)
                 ELSE Emit(m, "build", 1))

\* The caller drops what the call gave it.
Discard ==
  /\ op # "idle"
  /\ op' = "idle"
  /\ args' = <<>>
  /\ outcome' = NoErr
  /\ results' = <<>>
  /\ heap' = <<>>
  /\ held' = {}
  /\ reply' = NoReply
  /\ log' = <<>>
  /\ UNCHANGED <<sessionVars, seedVars>>

Next ==
  \/ GenerateArt
  \/ GenerateArtBatch
  \/ ExportHardwareMap
  \/ BuildCircuit
  \/ Discard

Spec == Init /\ [][Next]_vars

(***************************************************************************)
(* hash_name_to_seed alone, on any two names.                              *)
(***************************************************************************)
InitSeed ==
  /\ SessionInit
  /\ config = [num_qubits |-> 1, layers |-> 0, shots |-> 1]
  /\ use_cloud = FALSE
  /\ names_in \in AllNames \X AllNames
  /\ seeds_out = <<NotCalled, NotCalled>>

HashName(i) ==
  /\ seeds_out[i] = NotCalled
  /\ seeds_out' = [seeds_out EXCEPT ![i] = hash_name_to_seed(names_in[i])]
  /\ UNCHANGED <<names_in, sessionVars, callVars>>

NextSeed == \E i \in 1..2 : HashName(i)

SpecSeed == InitSeed /\ [][NextSeed]_vars

(***************************************************************************)
(* An ArtResult in the caller's hands.  ArtResult is a plain (not frozen)  *)
(* dataclass, and to_frontend_json and to_dict hand out the counts dict    *)
(* itself.                                                                 *)
(***************************************************************************)
\* ArtResult.to_frontend_json: "return self.counts".
to_frontend_json(result) == result.counts

\* ArtResult.to_dict: a new dict whose "counts" entry is self.counts.
to_dict(result) ==
  [name |-> result.name, seed |-> result.seed, counts |-> result.counts,
   total_shots |-> sum_values(heap[result.counts]),
   num_states |-> Cardinality(DOMAIN heap[result.counts]),
   backend |-> result.backend_name, config |-> result.config]

ToFrontendJson ==
  /\ \E i \in 1..Len(results) :
       held' = held \cup {[via |-> "to_frontend_json",
                            ref |-> to_frontend_json(results[i])]}
  /\ UNCHANGED <<sessionVars, seedVars, op, args, outcome, results, heap,
                 reply, log>>

ToDict ==
  /\ \E i \in 1..Len(results) :
       held' = held \cup {[via |-> "to_dict",
                            ref |-> to_dict(results[i]).counts]}
  /\ UNCHANGED <<sessionVars, seedVars, op, args, outcome, results, heap,
                 reply, log>>

\* The caller writes to a dict it was handed: d.clear(), or d[key] = value.
MutateMapping ==
  /\ \E h \in held :
       \E d \in {EmptyCounts,
                 (Zeros(config.num_qubits) :> (config.shots + 1))} :
          heap' = [heap EXCEPT ![h.ref] = d]
  /\ UNCHANGED <<sessionVars, seedVars, op, args, outcome, results, held,
                 reply, log>>

\* The caller assigns to a field of a result: result.name = ..., and so on.
AssignField ==
  /\ \E i \in 1..Len(results) :
       \E r \in {[results[i] EXCEPT !.name = <<"b">>],
                 [results[i] EXCEPT !.seed = <<0, 0>>],
                 [results[i] EXCEPT !.backend_name = "other"]} :
          results' = [results EXCEPT ![i] = r]
  /\ UNCHANGED <<sessionVars, seedVars, op, args, outcome, heap, held,
                 reply, log>>

NextResult ==
  \/ GenerateArt
  \/ ToFrontendJson
  \/ ToDict
  \/ MutateMapping
  \/ AssignField
  \/ Discard

SpecResult == Init /\ [][NextResult]_vars

(***************************************************************************)
(* What the properties below speak of.                                     *)
(***************************************************************************)
\* A name with nothing but whitespace in it (the empty name among them).
WhitespaceOnly(name) ==
  \A i \in 1..Len(name) : name[i] \in {" ", "\t", "\n", "\r"}

\* The events of a kind, in the order the call made them.
Events(kind) == SelectSeq(log, LAMBDA e : e[1] = kind)

Happened(kind) == \E i \in 1..Len(log) : log[i][1] = kind

\* The value of a result's counts.
CountsOf(r) == heap[r.counts]

\* An ArtResult as a caller sees it.
ResultView ==
  [i \in 1..Len(results) |->
     [name |-> results[i].name, seed |-> results[i].seed,
      counts |-> CountsOf(results[i]), config |-> results[i].config,
      backend_name |-> results[i].backend_name,
      total_shots |-> sum_values(CountsOf(results[i])),
      num_states |-> Cardinality(DOMAIN CountsOf(results[i]))]]

\* The backend was reached and produced Counts for each circuit submitted.
BackendDelivered(n) ==
  /\ _backend # None
  /\ ~reply.fail
  /\ Len(reply.entries) >= n
  /\ \A i \in 1..n : reply.entries[i].present

(***************************************************************************)
(* C1: for a non-empty list of valid names, on either backend variant,     *)
(* generate_art_batch returns exactly one ArtResult per name, the i-th     *)
(* carrying names[i], the seed of names[i] and the Counts the backend      *)
(* produced for the i-th circuit submitted.                                *)
(***************************************************************************)
C1_BatchOrderPreserved ==
  (/\ op = "generate_art_batch"
   /\ args # <<>>
   /\ \A i \in 1..Len(args) : ~WhitespaceOnly(args[i])
   /\ BackendDelivered(Len(args)))
  => /\ outcome = NoErr
     /\ Len(results) = Len(args)
     /\ \A i \in 1..Len(args) :
          /\ results[i].name = args[i]
          /\ results[i].seed = hash_name_to_seed(args[i]).seed
          /\ CountsOf(results[i]) = reply.entries[i].counts

C1_Witness ==
  /\ op = "generate_art_batch"
  /\ outcome = NoErr
  /\ use_cloud
  /\ Len(results) = 2
  /\ results[1].name # results[2].name
  /\ results[1].seed # results[2].seed
  /\ CountsOf(results[1]) # CountsOf(results[2])

(***************************************************************************)
(* C2: when the backend answers with a number of per-circuit results other *)
(* than the number of circuits submitted, or with a Counts entry absent,   *)
(* execution fails and the caller gets no results.                         *)
(***************************************************************************)
C2_ResultMismatchFails ==
  (/\ op \in {"generate_art", "generate_art_batch"}
   /\ use_cloud
   /\ Happened("job")
   /\ ~reply.fail
   /\ \/ Len(reply.entries) # Events("job")[1][2]
      \/ \E i \in 1..Len(reply.entries) : ~reply.entries[i].present)
  => /\ outcome # NoErr
     /\ results = <<>>

(***************************************************************************)
(* C3: the counts of every ArtResult returned sum to config.shots (a       *)
(* backend that delivers fewer makes the call fail).                       *)
(***************************************************************************)
C3_CountsSumToShots ==
  \A i \in 1..Len(results) : sum_values(CountsOf(results[i])) = config.shots

(***************************************************************************)
(* C4: a batch with an empty or whitespace-only name at any position       *)
(* fails as a whole: no ArtResult is returned, and the backend is never    *)
(* asked to execute anything.                                              *)
(***************************************************************************)
C4_InvalidNameFailsBatch ==
  (/\ op = "generate_art_batch"
   /\ \E i \in 1..Len(args) : WhitespaceOnly(args[i]))
  => /\ outcome = NameEmptyError
     /\ results = <<>>
     /\ heap = <<>>
     /\ ~Happened("execute")
     /\ ~Happened("job")

C4_Witness ==
  /\ op = "generate_art_batch"
  /\ Len(args) = 2
  /\ ~WhitespaceOnly(args[1])
  /\ WhitespaceOnly(args[2])
  /\ Happened("build")
  /\ outcome = NameEmptyError

(***************************************************************************)
(* C5: in a batch call every circuit is built before execution starts, and *)
(* execution is then invoked exactly once, with all the circuits, as one   *)
(* job, on the local and on the remote variant.                            *)
(***************************************************************************)
C5_OneJobAfterAllBuilt ==
  (op = "generate_art_batch" /\ outcome = NoErr)
  => /\ Events("execute") = <<<<"execute", Len(args)>>>>
     /\ Events("job") = <<<<"job", Len(args)>>>>
     /\ \A i, j \in 1..Len(log) :
          (log[i][1] = "build" /\ log[j][1] \in {"execute", "job"}) => i < j

(***************************************************************************)
(* C6: hash_name_to_seed depends on a name only through the name trimmed   *)
(* of leading and trailing whitespace and lowercased: two names with       *)
(* content that are equal up to that get the same seed.                    *)
(***************************************************************************)
FoldCase(c) == IF c = "A" THEN "a" ELSE IF c = "B" THEN "b" ELSE c

Content(name) == {i \in 1..Len(name) : ~WhitespaceOnly(<<name[i]>>)}

First(name) == CHOOSE i \in Content(name) : \A j \in Content(name) : i <= j
Last(name) == CHOOSE i \in Content(name) : \A j \in Content(name) : j <= i

SameIdentity(a, b) ==
  /\ Last(a) - First(a) = Last(b) - First(b)
  /\ \A k \in 0..(Last(a) - First(a)) :
       FoldCase(a[First(a) + k]) = FoldCase(b[First(b) + k])

C6_SeedNormalizationInvariant ==
  (/\ seeds_out[1] # NotCalled
   /\ seeds_out[2] # NotCalled
   /\ Content(names_in[1]) # {}
   /\ Content(names_in[2]) # {}
   /\ SameIdentity(names_in[1], names_in[2]))
  => /\ seeds_out[1].err = NoErr
     /\ seeds_out[2].err = NoErr
     /\ seeds_out[1].seed = seeds_out[2].seed

C6_Witness ==
  /\ names_in = << <<" ", "A", " ">>, <<"a">> >>
  /\ seeds_out[1].err = NoErr
  /\ seeds_out[2].err = NoErr
  /\ seeds_out[1].seed = seeds_out[2].seed

(***************************************************************************)
(* C7: once an ArtResult is constructed, nothing a caller can do changes   *)
(* its name, seed, counts, config or backend identifier, nor therefore its *)
(* total_shots and num_states.                                             *)
(***************************************************************************)
C7_ResultReadOnly ==
  [][(results # <<>> /\ results' # <<>>) => ResultView' = ResultView]_vars

(***************************************************************************)
(* C8: generate_art_batch on an empty list fails with the empty-batch      *)
(* error before it derives a seed, builds a circuit, touches the backend   *)
(* handle or executes anything.                                            *)
(***************************************************************************)
C8_EmptyBatchFailsFirst ==
  (op = "generate_art_batch" /\ args = <<>>)
  => /\ outcome = NamesEmptyError
     /\ log = <<>>
     /\ results = <<>>
     /\ heap = <<>>

C8_Witness ==
  /\ op = "generate_art_batch"
  /\ args = <<>>
  /\ outcome = NamesEmptyError
  /\ _backend = None

(***************************************************************************)
(* C9: _build_circuit on a vector whose length is not                      *)
(* (layers + 1) * num_qubits * 2 fails with an error carrying the expected *)
(* and the actual count and produces no circuit; on a vector of that       *)
(* length it succeeds; generate_art and generate_art_batch never fail with *)
(* that error.                                                             *)
(***************************************************************************)
ExpectedCount == (config.layers + 1) * config.num_qubits * 2

C9_ParameterCountChecked ==
  /\ op = "_build_circuit" =>
       LET k == Events("params")[1][2]
       IN IF k = ExpectedCount
          THEN outcome = NoErr /\ Happened("build")
          ELSE /\ outcome = ParameterCountError(ExpectedCount, k)
               /\ ~Happened("build")
  /\ op \in {"generate_art", "generate_art_batch"} =>
       /\ outcome.kind # ParameterCountError(0, 0).kind
       /\ \A i \in 1..Len(Events("params")) :
            Events("params")[i][2] = ExpectedCount

C9_Witness ==
  /\ op = "_build_circuit"
  /\ config.num_qubits = MaxQubits
  /\ config.layers = MaxLayers
  /\ outcome = ParameterCountError(ExpectedCount, ExpectedCount + 1)

(***************************************************************************)
(* C10: the backend handle is unset until first used, is initialized at    *)
(* most once in a session, and once set is reused by every later call.     *)
(***************************************************************************)
C10_BackendInitializedOnce ==
  [][/\ _backend = None => inits = 0
     /\ _backend # None => (_backend' = _backend /\ inits' = inits)
     /\ inits' <= 1]_vars

C10_Witness ==
  /\ _backend # None
  /\ inits = 1
  /\ Happened("access")
  /\ ~Happened("init")
  /\ outcome = NoErr
  /\ op = "generate_art_batch"
====
